---- MODULE Spec2Model ----
(***************************************************************************)
(* FinancAI backend ("FinanceAI main/backend"): the scoring and budgeting   *)
(* engine of finance_logic.py, the investing / savings-goal helpers and    *)
(* the /generate endpoint of main.py, and the explanation call of          *)
(* chatbot.py.                                                             *)
(*                                                                         *)
(* Numbers.  Python floats are modelled as exact rationals <<n, d>> in     *)
(* lowest terms with d > 0, i.e. with the real-number meaning of the       *)
(* arithmetic the code writes; binary rounding error of IEEE doubles is    *)
(* not modelled.  <<0, 0>> (Undef) stands for "no number": the outcome of  *)
(* a division whose divisor is zero (Python raises ZeroDivisionError).     *)
(* Undef is absorbing for + - * / and for round2, so an unguarded division *)
(* by zero anywhere in a computation shows in its result.                  *)
(* Python's None is the empty tuple.                                       *)
(***************************************************************************)
EXTENDS Integers, Sequences, FiniteSets, TLC

VARIABLES
    args,       \* unit harness: the arguments of the function under call
    ret,        \* unit harness: locals and returned value of that call
    called,     \* unit harness: FALSE before the call, TRUE after its return
    req,        \* /generate: request id -> GenerateRequest
    pc,         \* /generate: request id -> position in the handler
    loc,        \* /generate: request id -> the handler's local variables
    resp        \* /generate: request id -> the response returned (or None)

vars == <<args, ret, called, req, pc, loc, resp>>

None == <<>>

-----------------------------------------------------------------------------
(* Exact rational arithmetic standing for Python float arithmetic.          *)

RECURSIVE GCD(_, _)
GCD(a, b) == IF b = 0 THEN a ELSE GCD(b, a % b)

Abs(n) == IF n < 0 THEN -n ELSE n

Undef == <<0, 0>>

IsNum(x) == x # None /\ x[2] > 0

Norm(n, d) ==
    IF d = 0 THEN Undef
    ELSE LET g == GCD(Abs(n), Abs(d))
             s == IF d < 0 THEN -1 ELSE 1
         IN  <<(s * n) \div g, (s * d) \div g>>

R(n) == <<n, 1>>

Zero == R(0)

RAdd(a, b) == Norm(a[1] * b[2] + b[1] * a[2], a[2] * b[2])

RSub(a, b) == Norm(a[1] * b[2] - b[1] * a[2], a[2] * b[2])

RMul(a, b) == Norm(a[1] * b[1], a[2] * b[2])

\* a / b; Python raises ZeroDivisionError when b == 0.
RDiv(a, b) == IF b[1] = 0 THEN Undef ELSE Norm(a[1] * b[2], a[2] * b[1])

RLt(a, b) == a[1] * b[2] < b[1] * a[2]

RLe(a, b) == a[1] * b[2] <= b[1] * a[2]

RMax(a, b) == IF ~IsNum(a) \/ ~IsNum(b) THEN Undef ELSE IF RLt(a, b) THEN b ELSE a

RMin(a, b) == IF ~IsNum(a) \/ ~IsNum(b) THEN Undef ELSE IF RLt(b, a) THEN b ELSE a

\* Python truthiness of a number-or-None: None and 0 are falsy.
Truthy(x) == x # None /\ x # Zero

\* float(payload.get(key, default) or default)
GetNum(payload, key, default) ==
    IF key \in DOMAIN payload /\ Truthy(payload[key]) THEN payload[key] ELSE default

-----------------------------------------------------------------------------
(* finance_logic.py                                                         *)

\* safe_div without its guard on the divisor.
safe_div_unguarded(a, b) == RDiv(a, b)

\* A guard that divides only by a positive denominator.
safe_div_positive_only(a, b) == IF b # None /\ RLt(Zero, b) THEN RDiv(a, b) ELSE Zero

\* A guard that reports a ratio of 1 (the whole of the income) when there
\* is nothing to divide by.
safe_div_whole_on_zero(a, b) == IF Truthy(b) THEN RDiv(a, b) ELSE R(1)

safe_div(a, b) == IF Truthy(b) THEN RDiv(a, b) ELSE Zero

clamp(v, lo, hi) == RMax(lo, RMin(hi, v))

percent(x) == RMul(x, R(100))

\* round(float(x), 2): to the nearest hundredth, ties to the even hundredth.
round2(x) ==
    IF ~IsNum(x) THEN Undef
    ELSE LET h == x[1] * 100
             f == h \div x[2]
             r == h - f * x[2]
             up == 2 * r > x[2] \/ (2 * r = x[2] /\ f % 2 = 1)
         IN  Norm(IF up THEN f + 1 ELSE f, 100)

savings_rate_score(savings_rate) ==
    clamp(RMul(RDiv(savings_rate, Norm(20, 100)), R(100)), Zero, R(100))

\* The linear branch taken over a span of 0.40 instead of 0.30.
debt_score_wide_span(debt_to_income) ==
    LET raw == IF RLe(debt_to_income, Norm(10, 100)) THEN R(100)
               ELSE IF RLe(Norm(40, 100), debt_to_income) THEN Zero
               ELSE RMul(RSub(R(1), RDiv(RSub(debt_to_income, Norm(10, 100)),
                                         Norm(40, 100))), R(100))
    IN  clamp(raw, Zero, R(100))

debt_score(debt_to_income) ==
    LET raw == IF RLe(debt_to_income, Norm(10, 100)) THEN R(100)
               ELSE IF RLe(Norm(40, 100), debt_to_income) THEN Zero
               ELSE RMul(RSub(R(1), RDiv(RSub(debt_to_income, Norm(10, 100)),
                                         Norm(30, 100))), R(100))
    IN  clamp(raw, Zero, R(100))

housing_score(housing_pct) ==
    LET raw == IF RLe(housing_pct, Norm(30, 100)) THEN R(100)
               ELSE IF RLe(Norm(50, 100), housing_pct) THEN Zero
               ELSE RMul(RSub(R(1), RDiv(RSub(housing_pct, Norm(30, 100)),
                                         Norm(20, 100))), R(100))
    IN  clamp(raw, Zero, R(100))

emergency_score(emergency_months, emergency_target) ==
    IF RLe(emergency_target, emergency_months) THEN R(100)
    ELSE clamp(RMul(RDiv(emergency_months, emergency_target), R(100)), Zero, R(100))

weighted_overall(es, ds, ss, hs) ==
    clamp(RAdd(RAdd(RAdd(RMul(es, Norm(30, 100)), RMul(ds, Norm(28, 100))),
                    RMul(ss, Norm(22, 100))),
               RMul(hs, Norm(20, 100))),
          Zero, R(100))

state_label(overall) ==
    IF RLt(overall, R(40)) THEN "critical"
    ELSE IF RLt(overall, R(60)) THEN "vulnerable"
    ELSE IF RLt(overall, R(80)) THEN "stable"
    ELSE "strong"

\* The locals of compute_financial_score at its return statement.
score_locals(payload) ==
    LET income          == GetNum(payload, "monthly_income", Zero)
        fixed           == GetNum(payload, "fixed_expenses", Zero)
        variable        == GetNum(payload, "variable_expenses", Zero)
        debt_payment    == GetNum(payload, "debt_monthly_payment", Zero)
        savings_monthly == GetNum(payload, "savings_monthly", Zero)
        savings_total   == GetNum(payload, "savings_total", Zero)
        target          == GetNum(payload, "emergency_months_target", R(3))
        savings_rate    == safe_div(savings_monthly, income)
        debt_to_income  == safe_div(debt_payment, income)
        housing_pct     == safe_div(fixed, income)
        monthly_expenses == RMax(R(1), RAdd(fixed, variable))
        emergency_months == safe_div(savings_total, monthly_expenses)
        ss == savings_rate_score(savings_rate)
        ds == debt_score(debt_to_income)
        hs == housing_score(housing_pct)
        es == emergency_score(emergency_months, target)
        overall == weighted_overall(es, ds, ss, hs)
    IN  [ savings_rate |-> savings_rate, debt_to_income |-> debt_to_income,
          housing_pct |-> housing_pct, monthly_expenses |-> monthly_expenses,
          emergency_months |-> emergency_months, emergency_target |-> target,
          savings_rate_score |-> ss, debt_score |-> ds, housing_score |-> hs,
          emergency_score |-> es, overall |-> overall,
          state |-> state_label(overall) ]

\* The dict returned by compute_financial_score.
score_return(l) ==
    [ score |-> round2(l.overall),
      state |-> l.state,
      components |->
        [ savings_rate_pct      |-> round2(percent(l.savings_rate)),
          debt_to_income_pct    |-> round2(percent(l.debt_to_income)),
          housing_pct           |-> round2(l.housing_pct),
          emergency_fund_months |-> round2(l.emergency_months) ] ]

compute_financial_score(payload) == score_return(score_locals(payload))

\* str.lower() on the mode strings the model sends.
lower(s) ==
    IF s = "SUPER" THEN "super"
    ELSE IF s = "Relaxed" THEN "relaxed"
    ELSE IF s = "NORMAL" THEN "normal"
    ELSE s

\* Python's None where the code expects a str.
NoneStr == "<None>"

TruthyStr(s) == s # NoneStr /\ s # ""

target_savings_rate(mode) ==
    IF mode = "super" THEN Norm(30, 100)
    ELSE IF mode = "relaxed" THEN Norm(10, 100)
    ELSE Norm(20, 100)

\* A mode that is lower-cased but not replaced when unknown.
normalized_mode_passthrough(mode) ==
    lower(IF TruthyStr(mode) THEN mode ELSE "normal")

normalized_mode(mode) ==
    LET m == lower(IF TruthyStr(mode) THEN mode ELSE "normal")
    IN  IF m = "super" \/ m = "relaxed" THEN m ELSE "normal"

\* generate_budget recommending the target amount whether affordable or not.
recommended_savings_uncapped(ideal_savings, flexible_pool) == ideal_savings

\* The fallback taken already when the target equals the pool.
recommended_savings_fallback_at_equal(ideal_savings, flexible_pool) ==
    LET picked == IF RLe(flexible_pool, ideal_savings)
                  THEN RMul(flexible_pool, Norm(60, 100))
                  ELSE ideal_savings
    IN  clamp(picked, Zero, flexible_pool)

recommended_savings_of(ideal_savings, flexible_pool) ==
    LET picked == IF RLt(flexible_pool, ideal_savings)
                  THEN RMul(flexible_pool, Norm(60, 100))
                  ELSE ideal_savings
    IN  clamp(picked, Zero, flexible_pool)

\* The difference kept with its sign.
leftover_of_signed(income, total_planned) == RSub(income, total_planned)

leftover_of(income, total_planned) == RMax(Zero, RSub(income, total_planned))

\* The locals of generate_budget at its return statement.
budget_locals(payload, mode_arg) ==
    LET income           == GetNum(payload, "monthly_income", Zero)
        fixed            == GetNum(payload, "fixed_expenses", Zero)
        current_variable == GetNum(payload, "variable_expenses", Zero)
        debt             == GetNum(payload, "debt_monthly_payment", Zero)
        current_savings  == GetNum(payload, "savings_monthly", Zero)
        flexible_pool    == RMax(Zero, RSub(RSub(income, fixed), debt))
        mode             == normalized_mode(mode_arg)
        rate             == target_savings_rate(mode)
        ideal_savings    == RMul(income, rate)
        recommended_savings  == recommended_savings_of(ideal_savings, flexible_pool)
        recommended_variable == RMax(Zero, RSub(flexible_pool, recommended_savings))
        total_planned    == RAdd(RAdd(RAdd(fixed, debt), recommended_savings),
                                 recommended_variable)
        leftover         == leftover_of(income, total_planned)
    IN  [ income |-> income, fixed |-> fixed, debt |-> debt,
          current_variable |-> current_variable, current_savings |-> current_savings,
          flexible_pool |-> flexible_pool, mode |-> mode,
          target_savings_rate |-> rate, ideal_savings |-> ideal_savings,
          recommended_savings |-> recommended_savings,
          recommended_variable |-> recommended_variable,
          total_planned |-> total_planned, leftover |-> leftover,
          savings_change |-> RSub(recommended_savings, current_savings),
          variable_change |-> RSub(recommended_variable, current_variable),
          monthly_goal_capacity |-> RAdd(RMax(Zero, recommended_savings),
                                         RMax(Zero, leftover)) ]

\* The dict returned by generate_budget.
budget_return(l) ==
    [ mode |-> l.mode,
      totals |->
        [ income |-> round2(l.income), fixed |-> round2(l.fixed),
          debt |-> round2(l.debt),
          recommended_savings |-> round2(l.recommended_savings),
          recommended_variable |-> round2(l.recommended_variable),
          leftover |-> round2(l.leftover) ],
      deltas |->
        [ savings_change |-> round2(l.savings_change),
          variable_change |-> round2(l.variable_change) ],
      meta |->
        [ flexible_pool |-> round2(l.flexible_pool),
          target_savings_rate_pct |-> round2(percent(l.target_savings_rate)),
          monthly_goal_capacity |-> round2(l.monthly_goal_capacity) ] ]

generate_budget(payload, mode) == budget_return(budget_locals(payload, mode))

-----------------------------------------------------------------------------
(* main.py: investing readiness, allocation, region, savings goal.          *)

\* A message string; arg is the value an f-string interpolates ("" if none).
Msg(text, arg) == [text |-> text, arg |-> arg]

BlockerEmergency == Msg("Emergency fund is below 1 month of expenses.", "")
BlockerState(st) == Msg("Financial state is '{score_state}' - stabilize budget before investing.", st)
BlockerDeficit == Msg("Your monthly budget is negative (expenses exceed income).", "")
BlockerNoCash == Msg("No positive monthly cash flow or savings available to invest.", "")
ReasonEmergencyMid == Msg("Emergency fund is between 1-3 months (okay to start small, keep building it).", "")
ReasonEmergencyOk == Msg("Emergency fund is 3+ months (solid foundation).", "")
ReasonState(st) == Msg("Financial state is '{score_state}' (stable enough).", st)
ReasonRedirect == Msg("You have no extra leftover, but you can invest by redirecting part of your planned savings.", "")
ReasonCashFlow == Msg("Positive monthly cash flow available.", "")

\* Each check of investment_readiness: what it appends to blockers / reasons.
emergency_check(emergency_months) ==
    IF RLt(emergency_months, R(1)) THEN [b |-> <<BlockerEmergency>>, r |-> <<>>]
    ELSE IF RLt(emergency_months, R(3)) THEN [b |-> <<>>, r |-> <<ReasonEmergencyMid>>]
    ELSE [b |-> <<>>, r |-> <<ReasonEmergencyOk>>]

state_check(score_state) ==
    IF score_state \in {"critical", "vulnerable"}
    THEN [b |-> <<BlockerState(score_state)>>, r |-> <<>>]
    ELSE [b |-> <<>>, r |-> <<ReasonState(score_state)>>]

\* The cash-flow check without the "no cash flow or savings" blocker.
cash_flow_check_no_cash_ok(leftover, recommended_savings) ==
    IF RLt(leftover, Zero) THEN [b |-> <<BlockerDeficit>>, r |-> <<>>]
    ELSE IF leftover = Zero THEN [b |-> <<>>, r |-> <<ReasonRedirect>>]
    ELSE [b |-> <<>>, r |-> <<ReasonCashFlow>>]

\* The cash-flow check blocking on every zero leftover.
cash_flow_check_zero_blocks(leftover, recommended_savings) ==
    IF RLt(leftover, Zero) THEN [b |-> <<BlockerDeficit>>, r |-> <<>>]
    ELSE IF leftover = Zero THEN [b |-> <<BlockerNoCash>>, r |-> <<>>]
    ELSE [b |-> <<>>, r |-> <<ReasonCashFlow>>]

cash_flow_check(leftover, recommended_savings) ==
    IF RLt(leftover, Zero) THEN [b |-> <<BlockerDeficit>>, r |-> <<>>]
    ELSE IF leftover = Zero
         THEN IF RLt(Zero, recommended_savings)
              THEN [b |-> <<>>, r |-> <<ReasonRedirect>>]
              ELSE [b |-> <<BlockerNoCash>>, r |-> <<>>]
    ELSE [b |-> <<>>, r |-> <<ReasonCashFlow>>]

\* A verdict that tolerates one blocker.
ready_verdict_lenient(blockers) == Len(blockers) <= 1

ready_verdict(blockers) == Len(blockers) = 0

investment_readiness(score_state, emergency_months, leftover, recommended_savings) ==
    LET e == emergency_check(emergency_months)
        s == state_check(score_state)
        c == cash_flow_check(leftover, recommended_savings)
        blockers == e.b \o s.b \o c.b
        reasons == e.r \o s.r \o c.r
    IN  [ready |-> ready_verdict(blockers), blockers |-> blockers, reasons |-> reasons]

Allocation(stocks, bonds, cash) ==
    [stocks_pct |-> stocks, bonds_pct |-> bonds, cash_pct |-> cash]

\* The rule table with the savings-rate rule tested before the
\* emergency / debt rule.
portfolio_allocation_reordered(score_state, emergency_months, savings_rate, debt_to_income) ==
    IF score_state \in {"critical", "vulnerable"} THEN Allocation(0, 0, 100)
    ELSE IF RLt(savings_rate, Norm(15, 100)) THEN Allocation(60, 35, 5)
    ELSE IF RLt(emergency_months, R(3)) \/ RLt(Norm(30, 100), debt_to_income)
         THEN Allocation(40, 50, 10)
    ELSE Allocation(80, 20, 0)

portfolio_allocation_dynamic(score_state, emergency_months, savings_rate, debt_to_income) ==
    IF score_state \in {"critical", "vulnerable"} THEN Allocation(0, 0, 100)
    ELSE IF RLt(emergency_months, R(3)) \/ RLt(Norm(30, 100), debt_to_income)
         THEN Allocation(40, 50, 10)
    ELSE IF RLt(savings_rate, Norm(15, 100)) THEN Allocation(60, 35, 5)
    ELSE Allocation(80, 20, 0)

\* The bar of ascii_portfolio: int(p / 5) full blocks out of 20.
ascii_portfolio(allocation) ==
    [ k \in {"stocks_pct", "bonds_pct", "cash_pct"} |->
        [pct |-> allocation[k], full |-> allocation[k] \div 5,
         empty |-> 20 - (allocation[k] \div 5)] ]

\* str.strip().lower() and str.upper().strip() on the strings the model sends.
strip_lower(s) ==
    IF s = " Germany " THEN "germany"
    ELSE IF s = "USA" THEN "usa"
    ELSE lower(s)

upper_strip(s) ==
    IF s = "usd" THEN "USD"
    ELSE IF s = "eur " THEN "EUR"
    ELSE s

\* The alias sets of infer_region, with three of its 27 EU countries.
RegionOfCountry ==
    [ c \in {"united states", "usa", "us", "america", "united kingdom", "uk",
             "india", "bharat", "japan", "germany", "france", "spain"} |->
        IF c \in {"united states", "usa", "us", "america"} THEN "US"
        ELSE IF c \in {"united kingdom", "uk"} THEN "UK"
        ELSE IF c \in {"india", "bharat"} THEN "IN"
        ELSE IF c = "japan" THEN "JP"
        ELSE "EU" ]

\* The currency codes are three letters, so startswith is equality here.
RegionOfCurrency(cur) ==
    IF cur = "USD" THEN "US"
    ELSE IF cur = "CAD" THEN "CA"
    ELSE IF cur = "AUD" THEN "AU"
    ELSE IF cur = "EUR" THEN "EU"
    ELSE IF cur = "GBP" THEN "UK"
    ELSE IF cur = "JPY" THEN "JP"
    ELSE IF cur = "INR" THEN "IN"
    ELSE "GLOBAL"

infer_region(country, currency) ==
    IF TruthyStr(country) /\ strip_lower(country) \in DOMAIN RegionOfCountry
    THEN RegionOfCountry[strip_lower(country)]
    ELSE RegionOfCurrency(upper_strip(IF TruthyStr(currency) THEN currency ELSE ""))

\* The education dict is one of four literals, named here by its region key.
region_investing_education(region) ==
    IF region \in {"US", "EU", "IN"} THEN [wrappers_of |-> region]
    ELSE [wrappers_of |-> "generic"]

\* math.ceil of a positive quotient, as a number.
ceil(x) == R(-((-x[1]) \div x[2]))

NotePlanned(m) == [text |-> "Using your planned savings capacity, you could reach the goal in about {months_planned} months.", arg |-> m]
NoteNoPlanned == [text |-> "Your planned savings capacity is 0, so a timeline can't be estimated until savings increases.", arg |-> None]
NoteCurrent(m) == [text |-> "Using your current monthly savings input, you could reach the goal in about {months_current} months.", arg |-> m]
NoteNoCurrent == [text |-> "Your current monthly savings input is 0, so a timeline can't be estimated from current savings.", arg |-> None]
NoteAddGoal == [text |-> "Add a goal amount to estimate an ideal timeline.", arg |-> None]

\* The quotient rounded down instead of up.
ideal_months_floor(goal_cost, capacity) ==
    IF RLt(Zero, capacity)
    THEN LET x == RDiv(goal_cost, capacity) IN R(x[1] \div x[2])
    ELSE None

ideal_months(goal_cost, capacity) ==
    IF RLt(Zero, capacity) THEN ceil(RDiv(goal_cost, capacity)) ELSE None

\* A guard that only tests truthiness, without the `<= 0` test.
goal_disabled_falsy_only(goal_cost) == ~Truthy(goal_cost)

\* `not goal_cost or goal_cost <= 0`.
goal_disabled(goal_cost) == ~Truthy(goal_cost) \/ RLe(goal_cost, Zero)

compute_goal_timeline_ideal(goal_cost, currency, recommended_savings, leftover, current_monthly_savings) ==
    IF goal_disabled(goal_cost)
    THEN [ enabled |-> FALSE, goal_cost |-> goal_cost, currency |-> currency,
           planned_monthly_capacity |-> None, current_monthly_savings |-> None,
           ideal_months_using_planned_savings |-> None,
           ideal_months_using_current_savings |-> None,
           notes |-> <<NoteAddGoal>> ]
    ELSE LET planned_capacity == RAdd(RMax(Zero, recommended_savings), RMax(Zero, leftover))
             current_capacity == RMax(Zero, current_monthly_savings)
             months_planned == ideal_months(goal_cost, planned_capacity)
             months_current == ideal_months(goal_cost, current_capacity)
         IN  [ enabled |-> TRUE, goal_cost |-> goal_cost, currency |-> currency,
               planned_monthly_capacity |-> planned_capacity,
               current_monthly_savings |-> current_capacity,
               ideal_months_using_planned_savings |-> months_planned,
               ideal_months_using_current_savings |-> months_current,
               notes |->
                 << IF RLt(Zero, planned_capacity) /\ months_planned # None
                    THEN NotePlanned(months_planned) ELSE NoteNoPlanned,
                    IF RLt(Zero, current_capacity) /\ months_current # None
                    THEN NoteCurrent(months_current) ELSE NoteNoCurrent >> ]

-----------------------------------------------------------------------------
(* main.py: the /generate handler, statement group by statement group.      *)

RECURSIVE sum_amounts(_)
sum_amounts(items) ==
    IF items = <<>> THEN Zero
    ELSE RAdd(Head(items).amount, sum_amounts(Tail(items)))

\* The breakdown's sum used whenever a breakdown is given, zero or not.
variable_total_of_any_breakdown(q) ==
    IF q.variable_breakdown # <<>> THEN sum_amounts(q.variable_breakdown)
    ELSE q.variable_expenses

variable_total_of(q) ==
    LET breakdown_total == sum_amounts(q.variable_breakdown)
    IN  IF RLt(Zero, breakdown_total) THEN breakdown_total ELSE q.variable_expenses

scoring_input_of(q) ==
    [ monthly_income |-> q.monthly_income,
      fixed_expenses |-> q.fixed_expenses,
      variable_expenses |-> variable_total_of(q),
      debt_monthly_payment |-> q.debt_monthly_payment,
      debt_total_balance |-> q.debt_total_balance,
      savings_monthly |-> q.savings_monthly,
      savings_total |-> q.savings_total,
      emergency_months_target |-> R(3) ]

\* json.dumps(plan_fingerprint, sort_keys=True): the members in key order.
\* A fingerprint that leaves the budget mode out.
plan_fingerprint_without_mode(q, variable_total) ==
    << <<"country", q.country>>, <<"currency", q.currency>>,
       <<"debt", q.debt_monthly_payment>>, <<"fixed", q.fixed_expenses>>,
       <<"goal_cost", q.savings_goal_cost>>, <<"income", q.monthly_income>>,
       <<"savings", q.savings_monthly>>,
       <<"savings_total", q.savings_total>>, <<"variable", variable_total>> >>

plan_fingerprint_json(q, variable_total) ==
    << <<"country", q.country>>, <<"currency", q.currency>>,
       <<"debt", q.debt_monthly_payment>>, <<"fixed", q.fixed_expenses>>,
       <<"goal_cost", q.savings_goal_cost>>, <<"income", q.monthly_income>>,
       <<"mode", q.budget_mode>>, <<"savings", q.savings_monthly>>,
       <<"savings_total", q.savings_total>>, <<"variable", variable_total>> >>

\* The hex digits of a SHA-256 digest, and those the slice [:16] keeps.
HexDigestLen == 64
PlanIdLen == 16

\* hashlib.sha256(text).hexdigest()[:16]: the digest, named by the text
\* hashed, with the number of hex digits kept.
sha256_hex16(text) ==
    [ sha256_hex16_of |-> text,
      chars |-> IF PlanIdLen < HexDigestLen THEN PlanIdLen ELSE HexDigestLen ]

\* Lines 331-343: the effective variable total and the engine's input.
step_inputs(q) ==
    [ variable_total |-> variable_total_of(q), scoring_input |-> scoring_input_of(q) ]

\* Line 345.
step_score(q, l) == l @@ [ score_obj |-> compute_financial_score(l.scoring_input) ]

\* Line 346.
step_budget(q, l) == l @@ [ budget_obj |-> generate_budget(l.scoring_input, q.budget_mode) ]

\* Lines 348-359.
step_readiness(q, l) ==
    LET recommended_savings == l.budget_obj.totals.recommended_savings
        leftover == l.budget_obj.totals.leftover
        emergency_months == l.score_obj.components.emergency_fund_months
    IN  l @@ [ region |-> infer_region(q.country, q.currency),
               recommended_savings |-> recommended_savings,
               leftover |-> leftover,
               emergency_months |-> emergency_months,
               readiness |-> investment_readiness(l.score_obj.state, emergency_months,
                                                  leftover, recommended_savings) ]

\* Lines 361-372.
step_allocation(q, l) ==
    LET savings_rate == safe_div(q.savings_monthly, q.monthly_income)
        debt_to_income == safe_div(q.debt_monthly_payment, q.monthly_income)
        allocation == portfolio_allocation_dynamic(l.score_obj.state, l.emergency_months,
                                                   savings_rate, debt_to_income)
    IN  l @@ [ savings_rate |-> savings_rate, debt_to_income |-> debt_to_income,
               education |-> region_investing_education(l.region),
               allocation |-> allocation,
               allocation_visual |-> ascii_portfolio(allocation) ]

\* Lines 374-383.
step_goal(q, l) ==
    LET goal == compute_goal_timeline_ideal(q.savings_goal_cost, q.currency,
                                            l.recommended_savings, l.leftover,
                                            q.savings_monthly)
    IN  l @@ [ savings_goal |->
                 IF goal.enabled /\ TruthyStr(q.savings_goal_name)
                 THEN goal @@ [goal_name |-> q.savings_goal_name]
                 ELSE goal ]

\* A plan id salted with the number of requests served so far.
step_plan_id_salted(q, l) ==
    l @@ [ plan_id |-> sha256_hex16(<< plan_fingerprint_json(q, l.variable_total),
                                       Cardinality({x \in DOMAIN pc : pc[x] = "done"}) >>) ]

\* Lines 386-398.
step_plan_id(q, l) ==
    l @@ [ plan_id |-> sha256_hex16(plan_fingerprint_json(q, l.variable_total)) ]

\* Lines 400-420: the dict handed to the explanation service.
llm_input_of(q, l) ==
    [ plan_id |-> l.plan_id, currency |-> q.currency, region |-> l.region,
      inputs |-> l.scoring_input, score |-> l.score_obj, budget_plan |-> l.budget_obj,
      budget_mode |-> q.budget_mode,
      spending_patterns |-> [ variable_total |-> l.variable_total,
                              breakdown |-> q.variable_breakdown ],
      investing |-> [ readiness |-> l.readiness, education |-> l.education,
                      allocation_example |-> l.allocation,
                      allocation_visual |-> l.allocation_visual,
                      education_only |-> TRUE ],
      savings_goal |-> l.savings_goal ]

LLMPlaceholder == "I couldn't reach the Groq LLM API. Error: {e}. Please check your GROQ_API_KEY and internet connection."

\* What the hosted model may answer.
LLMTexts == {"explanation A", "explanation B"}

\* chatbot.get_llm_explanation: the completion's text, or the placeholder
\* when the client call raises.  outcome is "raise" or a text of LLMTexts.
get_llm_explanation(llm_input, outcome) ==
    IF outcome = "raise" THEN LLMPlaceholder ELSE outcome

\* An explanation step that zeroes the score when the service fails.
step_explain_clobbering(q, l, outcome) ==
    [l EXCEPT !.score_obj = IF outcome = "raise" THEN [@ EXCEPT !.score = Zero] ELSE @]
        @@ [ llm_raised |-> (outcome = "raise"),
             explanation |-> get_llm_explanation(llm_input_of(q, l), outcome) ]

\* Line 422.
step_explain(q, l, outcome) ==
    l @@ [ llm_raised |-> (outcome = "raise"),
           explanation |-> get_llm_explanation(llm_input_of(q, l), outcome) ]

\* Lines 424-437: the response.
generate_response(l) ==
    [ plan_id |-> l.plan_id,
      score |-> l.score_obj,
      budget |-> l.budget_obj,
      investing |-> [ region |-> l.region, readiness |-> l.readiness,
                      education |-> l.education,
                      allocation_example |-> l.allocation,
                      allocation_visual |-> l.allocation_visual ],
      savings_goal |-> l.savings_goal,
      llm_explanation |-> l.explanation ]

\* The whole handler, run from its first statement to its return: its
\* locals at the return statement, and the dict it returns.
generate_locals(q, outcome) ==
    step_explain(q,
        step_plan_id(q, step_goal(q, step_allocation(q, step_readiness(q,
            step_budget(q, step_score(q, step_inputs(q))))))), outcome)

generate(q, outcome) == generate_response(generate_locals(q, outcome))

-----------------------------------------------------------------------------
(* The chat path: main.py /chat and the chat turn of the Streamlit client   *)
(* (app.py).  Python dicts are objects: a heap is a sequence of dicts, an   *)
(* object is named by its position, and a dict held inside another dict is  *)
(* held by reference, so that a change made through one name is seen        *)
(* through every other name of the same object.  Of the nested dicts only   *)
(* "investing" is ever copied or changed, so only it is held by reference.  *)

\* The name of no object: None.
NoneRef == 0

Ref(i) == [ref |-> i]

\* d.get(k)
Get(d, k) == IF k \in DOMAIN d THEN d[k] ELSE None

\* The JSON text of object i of heap h, as the value it denotes.
json_dumps(h, i) ==
    IF i = NoneRef THEN None
    ELSE IF "investing" \in DOMAIN h[i]
         THEN [h[i] EXCEPT !.investing = h[h[i].investing.ref]]
         ELSE h[i]

\* The objects a JSON value is parsed into, added to heap h; None parses to
\* no object.
json_loads(h, v) ==
    IF v = None THEN [heap |-> h, value |-> NoneRef]
    ELSE IF "investing" \in DOMAIN v
         THEN LET h1 == Append(h, v.investing)
              IN  [ heap |-> Append(h1, [v EXCEPT !.investing = Ref(Len(h1))]),
                    value |-> Len(h1) + 1 ]
         ELSE [heap |-> Append(h, v), value |-> Len(h) + 1]

\* A variant that pops allocation_visual from the caller's investing dict
\* and returns the caller's object.
strip_visual_in_place(h, financial_data) ==
    IF financial_data = NoneRef THEN [heap |-> h, value |-> financial_data]
    ELSE IF "investing" \in DOMAIN h[financial_data]
         THEN LET inv == h[financial_data].investing.ref
              IN  [ heap |-> [h EXCEPT ![inv] =
                                 [k \in DOMAIN h[inv] \ {"allocation_visual"} |-> h[inv][k]]],
                    value |-> financial_data ]
         ELSE [heap |-> h, value |-> financial_data]

\* fd = dict(financial_data); inv2 = dict(inv) without allocation_visual;
\* fd["investing"] = inv2.  Returns the heap after the call and fd.
strip_visual_from_financial_data(h, financial_data) ==
    IF financial_data = NoneRef THEN [heap |-> h, value |-> financial_data]
    ELSE LET h1 == Append(h, h[financial_data])
             fd == Len(h1)
         IN  IF "investing" \in DOMAIN h1[fd]
             THEN LET inv == h1[h1[fd].investing.ref]
                      inv2 == [k \in DOMAIN inv \ {"allocation_visual"} |-> inv[k]]
                      h2 == Append(h1, inv2)
                  IN  [ heap |-> [h2 EXCEPT ![fd].investing = Ref(Len(h2))],
                        value |-> fd ]
             ELSE [heap |-> h1, value |-> fd]

\* str.strip() on the messages sent.
strip(s) ==
    IF s = "   " THEN ""
    ELSE IF s = " How can I save more? " THEN "How can I save more?"
    ELSE s

\* Lines 457-494 of main.py: the context handed to the chat model, read from
\* fd with .get().
chat_context(h, fd, incoming_plan_id) ==
    LET budget == Get(h[fd], "budget")
        investing == IF "investing" \in DOMAIN h[fd] THEN h[h[fd].investing.ref] ELSE <<>>
        spending_patterns == Get(h[fd], "spending_patterns")
        breakdown == Get(spending_patterns, "breakdown")
    IN  [ plan_id |-> incoming_plan_id,
          currency |-> Get(h[fd], "currency"),
          region |-> Get(investing, "region"),
          budget_totals |-> Get(budget, "totals"),
          budget_deltas |-> Get(budget, "deltas"),
          investing |-> [ readiness |-> Get(investing, "readiness"),
                          education |-> Get(investing, "education"),
                          allocation_example |-> Get(investing, "allocation_example") ],
          spending_patterns |->
              [ variable_total |-> Get(spending_patterns, "variable_total"),
                breakdown |-> breakdown,
                breakdown_text |-> IF breakdown = <<>> THEN "" ELSE [lines_of |-> breakdown] ],
          savings_goal |-> Get(h[fd], "savings_goal") ]

ChatUnreachable == "I couldn't reach the Groq LLM API. Error: {e}"

\* What the hosted model may answer in a chat.
ChatTexts == {"answer A", "answer B"}

\* chatbot.chat_freeform: the completion's text, or the error text when the
\* client call raises.  outcome is "raise" or a text of ChatTexts.
chat_freeform(message, context, outcome) ==
    IF outcome = "raise" THEN ChatUnreachable ELSE outcome

\* The /chat handler on a parsed payload.  Returns the server's heap after
\* the handler, the object financial_data names, whether chat_freeform (and
\* with it the language model) was called, and the returned dict.
chat(payload, outcome) ==
    LET user_msg == strip(payload.message)
        parsed == json_loads(<<>>, payload.financial_data)
        \* `payload.get("financial_data") or {}`
        h0 == IF parsed.value = NoneRef THEN Append(parsed.heap, <<>>) ELSE parsed.heap
        financial_data == IF parsed.value = NoneRef THEN Len(h0) ELSE parsed.value
    IN  IF user_msg = ""
        THEN [ heap |-> h0, financial_data |-> financial_data, llm_called |-> FALSE,
               value |-> [response |-> "Please enter a message."] ]
        ELSE LET stripped == strip_visual_from_financial_data(h0, financial_data)
                 context == chat_context(stripped.heap, stripped.value, payload.plan_id)
             IN  [ heap |-> stripped.heap, financial_data |-> financial_data, llm_called |-> TRUE,
                   value |-> [response |-> chat_freeform(user_msg, context, outcome)] ]

\* app.py make_fingerprint: the digest of the form's payload, named by it.
make_fingerprint(payload) == [sha256_of |-> payload]

-----------------------------------------------------------------------------
(* Input domains.  Amounts are whole currency units.                        *)

MaxIncome == 11
MaxFixed == 5
MaxVariable == 9
MaxDebt == 3
MaxSavingsMonthly == 2
MaxSavingsTotal == 5

Amounts(max) == {R(k) : k \in 0..max}

\* emergency_months_target: absent (the default 3 applies) or 6 months.
TargetChoices == {None, R(6)}

ScorePayloads ==
    [ monthly_income : Amounts(MaxIncome),
      fixed_expenses : Amounts(MaxFixed),
      variable_expenses : Amounts(MaxVariable),
      debt_monthly_payment : Amounts(MaxDebt),
      savings_monthly : Amounts(MaxSavingsMonthly),
      savings_total : Amounts(MaxSavingsTotal),
      emergency_months_target : TargetChoices ]

BudgetPayloads ==
    [ monthly_income : Amounts(MaxIncome),
      fixed_expenses : Amounts(MaxFixed),
      variable_expenses : Amounts(MaxVariable),
      debt_monthly_payment : Amounts(MaxDebt),
      savings_monthly : Amounts(MaxSavingsMonthly) ]

\* The mode arguments tried: the three modes, other spellings, an unknown
\* word, the empty string and None.
ModeArgs == {"super", "normal", "relaxed", "SUPER", "yolo", "", NoneStr}

ScoreStates == {"critical", "vulnerable", "stable", "strong"}

MaxHalfMonths == 7
MaxLeftover == 2
MaxRecommended == 2
MaxTwentieths == 5
MaxTenths == 5

\* Months of runway in steps of half a month.
HalfMonths == {Norm(k, 2) : k \in 0..MaxHalfMonths}

\* "unknown" is what /generate passes when the score dict has no state.
ReadinessArgs ==
    [ score_state : ScoreStates \cup {"unknown"},
      emergency_months : HalfMonths,
      leftover : {R(k) : k \in (-MaxLeftover)..MaxLeftover},
      recommended_savings : {R(k) : k \in (-1)..MaxRecommended} ]

AllocationArgs ==
    [ score_state : ScoreStates \cup {"unknown"},
      emergency_months : HalfMonths,
      savings_rate : {Norm(k, 20) : k \in 0..MaxTwentieths},
      debt_to_income : {Norm(k, 10) : k \in 0..MaxTenths} ]

\* Payloads for the ratios: income may be negative or zero, expenses may be
\* zero or below one unit, and two debt payments are scored side by side.
RatioArgs ==
    [ monthly_income : {R(k) : k \in (-1)..MaxIncome},
      debt_a : Amounts(MaxDebt),
      debt_b : Amounts(MaxDebt),
      savings_monthly : {R(k) : k \in (-1)..MaxSavingsMonthly},
      savings_total : {Zero, R(3), Norm(7, 2)},
      fixed_expenses : {Zero, Norm(1, 2), R(2)},
      variable_expenses : {Zero, R(1)} ]

RatioPayload(a, debt) ==
    [ monthly_income |-> a.monthly_income, fixed_expenses |-> a.fixed_expenses,
      variable_expenses |-> a.variable_expenses, debt_monthly_payment |-> debt,
      savings_monthly |-> a.savings_monthly, savings_total |-> a.savings_total,
      emergency_months_target |-> None ]

MaxGoalCost == 12

\* The arguments of compute_goal_timeline_ideal: no goal, a negative, zero or
\* positive goal cost, and capacities that may be negative or zero.
GoalArgs ==
    [ goal_cost : {None} \cup {R(k) : k \in (-1)..MaxGoalCost},
      recommended_savings : {R(k) : k \in (-1)..MaxRecommended},
      leftover : {R(k) : k \in (-1)..MaxLeftover},
      current_monthly_savings : {R(k) : k \in (-1)..MaxSavingsMonthly} ]

NumRequests == 2

RequestIds == 1..NumRequests

\* The end-to-end scenario: income 4000, fixed 1200, variable 500, debt
\* payment 200, savings 400 a month and 6000 in total, mode normal.
BaseRequest ==
    [ currency |-> "USD", country |-> NoneStr,
      monthly_income |-> R(4000), fixed_expenses |-> R(1200),
      variable_expenses |-> R(500), variable_breakdown |-> <<>>,
      debt_monthly_payment |-> R(200), debt_total_balance |-> Zero,
      savings_monthly |-> R(400), savings_total |-> R(6000),
      budget_mode |-> "normal",
      savings_goal_cost |-> None, savings_goal_months |-> None,
      savings_goal_name |-> NoneStr ]

\* The requests clients send: the scenario, the scenario without income,
\* with a savings goal, and in super mode with an itemised breakdown.
ServerRequests ==
    { BaseRequest,
      [BaseRequest EXCEPT !.monthly_income = Zero, !.savings_monthly = Zero],
      [BaseRequest EXCEPT !.savings_goal_cost = R(1200), !.savings_goal_name = "Laptop"],
      [BaseRequest EXCEPT !.budget_mode = "super", !.currency = "eur ",
                          !.country = " Germany ",
                          !.variable_breakdown =
                              << [name |-> "food", amount |-> R(300)],
                                 [name |-> "fun", amount |-> R(100)] >>] }

\* Requests that differ from the scenario in one fingerprint field, in
\* fields outside the fingerprint, in how the variable total is given, by
\* amounts with three decimals, or by savings just short of one and of
\* three months of the 1700 of expenses.
PlanRequests ==
    { BaseRequest,
      [BaseRequest EXCEPT !.currency = "eur "],
      [BaseRequest EXCEPT !.country = " Germany "],
      [BaseRequest EXCEPT !.budget_mode = "super"],
      [BaseRequest EXCEPT !.monthly_income = R(3000)],
      [BaseRequest EXCEPT !.fixed_expenses = R(1000)],
      [BaseRequest EXCEPT !.variable_expenses = R(400)],
      [BaseRequest EXCEPT !.debt_monthly_payment = R(100)],
      [BaseRequest EXCEPT !.savings_monthly = R(300)],
      [BaseRequest EXCEPT !.savings_total = R(5000)],
      [BaseRequest EXCEPT !.savings_goal_cost = R(1200)],
      [BaseRequest EXCEPT !.debt_total_balance = R(5000)],
      [BaseRequest EXCEPT !.savings_goal_months = R(12)],
      [BaseRequest EXCEPT !.savings_goal_cost = R(1200), !.savings_goal_name = "Laptop",
                          !.savings_goal_months = R(12)],
      [BaseRequest EXCEPT !.variable_breakdown =
                              << [name |-> "food", amount |-> R(300)],
                                 [name |-> "fun", amount |-> R(200)] >>],
      [BaseRequest EXCEPT !.variable_breakdown =
                              << [name |-> "food", amount |-> R(300)],
                                 [name |-> "fun", amount |-> R(100)] >>],
      [BaseRequest EXCEPT !.variable_breakdown =
                              << [name |-> "food", amount |-> Zero],
                                 [name |-> "fun", amount |-> Zero] >>],
      [BaseRequest EXCEPT !.variable_expenses = Zero,
                          !.variable_breakdown = << [name |-> "food", amount |-> R(500)] >>],
      [BaseRequest EXCEPT !.savings_monthly = Norm(400125, 1000),
                          !.savings_goal_cost = Norm(1200375, 1000)],
      [BaseRequest EXCEPT !.savings_total = Norm(6000125, 1000),
                          !.variable_expenses = Norm(500375, 1000)],
      [BaseRequest EXCEPT !.savings_total = R(1692)],
      [BaseRequest EXCEPT !.savings_total = R(5092)] }

\* What a user types into the chat box: blanks only, or a question.
ChatMessages == {"   ", " How can I save more? "}

MaxChatTurns == 2

NoRequest == [kind |-> "none"]

NoCall == [fn |-> "none"]

HarnessIdle ==
    /\ args = None
    /\ ret = NoCall
    /\ called = FALSE

ServerIdle ==
    /\ req = <<>>
    /\ pc = <<>>
    /\ loc = <<>>
    /\ resp = <<>>

-----------------------------------------------------------------------------
(* Unit harness of compute_financial_score: one call on an arbitrary        *)
(* payload.                                                                 *)

InitScore ==
    /\ args \in ScorePayloads
    /\ ret = NoCall
    /\ called = FALSE
    /\ ServerIdle

CallScore ==
    /\ ~called
    /\ called' = TRUE
    /\ ret' = [ fn |-> "compute_financial_score",
                locals |-> score_locals(args),
                value |-> compute_financial_score(args) ]
    /\ UNCHANGED <<args, req, pc, loc, resp>>

NextScore == CallScore

SpecScore == InitScore /\ [][NextScore]_vars

-----------------------------------------------------------------------------
(* Unit harness of generate_budget: one call on an arbitrary payload and    *)
(* mode.                                                                    *)

InitBudget ==
    /\ args \in [payload : BudgetPayloads, mode : ModeArgs]
    /\ ret = NoCall
    /\ called = FALSE
    /\ ServerIdle

CallBudget ==
    /\ ~called
    /\ called' = TRUE
    /\ ret' = [ fn |-> "generate_budget",
                locals |-> budget_locals(args.payload, args.mode),
                value |-> generate_budget(args.payload, args.mode) ]
    /\ UNCHANGED <<args, req, pc, loc, resp>>

NextBudget == CallBudget

SpecBudget == InitBudget /\ [][NextBudget]_vars

-----------------------------------------------------------------------------
(* Unit harness of investment_readiness: one call on arbitrary arguments.   *)

InitReadiness ==
    /\ args \in ReadinessArgs
    /\ ret = NoCall
    /\ called = FALSE
    /\ ServerIdle

CallReadiness ==
    /\ ~called
    /\ called' = TRUE
    /\ ret' = [ fn |-> "investment_readiness",
                value |-> investment_readiness(args.score_state, args.emergency_months,
                                               args.leftover, args.recommended_savings) ]
    /\ UNCHANGED <<args, req, pc, loc, resp>>

NextReadiness == CallReadiness

SpecReadiness == InitReadiness /\ [][NextReadiness]_vars

-----------------------------------------------------------------------------
(* Unit harness of portfolio_allocation_dynamic.                            *)

InitAllocation ==
    /\ args \in AllocationArgs
    /\ ret = NoCall
    /\ called = FALSE
    /\ ServerIdle

CallAllocation ==
    /\ ~called
    /\ called' = TRUE
    /\ ret' = [ fn |-> "portfolio_allocation_dynamic",
                value |-> portfolio_allocation_dynamic(args.score_state,
                              args.emergency_months, args.savings_rate,
                              args.debt_to_income) ]
    /\ UNCHANGED <<args, req, pc, loc, resp>>

NextAllocation == CallAllocation

SpecAllocation == InitAllocation /\ [][NextAllocation]_vars

-----------------------------------------------------------------------------
(* Unit harness of the ratios and sub-scores of compute_financial_score:    *)
(* two calls on payloads that differ in the debt payment only.              *)

InitRatios ==
    /\ args \in RatioArgs
    /\ ret = NoCall
    /\ called = FALSE
    /\ ServerIdle

CallScoreTwice ==
    /\ ~called
    /\ called' = TRUE
    /\ ret' = [ fn |-> "compute_financial_score twice",
                a |-> score_locals(RatioPayload(args, args.debt_a)),
                b |-> score_locals(RatioPayload(args, args.debt_b)) ]
    /\ UNCHANGED <<args, req, pc, loc, resp>>

SpecRatios == InitRatios /\ [][CallScoreTwice]_vars

-----------------------------------------------------------------------------
(* Unit harness of compute_goal_timeline_ideal.                             *)

InitGoal ==
    /\ args \in GoalArgs
    /\ ret = NoCall
    /\ called = FALSE
    /\ ServerIdle

CallGoal ==
    /\ ~called
    /\ called' = TRUE
    /\ ret' = [ fn |-> "compute_goal_timeline_ideal",
                value |-> compute_goal_timeline_ideal(args.goal_cost, "USD",
                              args.recommended_savings, args.leftover,
                              args.current_monthly_savings) ]
    /\ UNCHANGED <<args, req, pc, loc, resp>>

NextGoal == CallGoal

SpecGoal == InitGoal /\ [][NextGoal]_vars

-----------------------------------------------------------------------------
(* Unit harness of /generate as a function of its request: the handler is   *)
(* run on two requests, each to its end.                                    *)

InitPlans ==
    /\ args \in [a : PlanRequests, b : PlanRequests]
    /\ ret = NoCall
    /\ called = FALSE
    /\ ServerIdle

CallGenerateTwice ==
    /\ ~called
    /\ called' = TRUE
    /\ \E outcome_a, outcome_b \in LLMTexts \cup {"raise"} :
           ret' = [ fn |-> "generate",
                    a |-> [ locals |-> generate_locals(args.a, outcome_a),
                            value |-> generate(args.a, outcome_a) ],
                    b |-> [ locals |-> generate_locals(args.b, outcome_b),
                            value |-> generate(args.b, outcome_b) ] ]
    /\ UNCHANGED <<args, req, pc, loc, resp>>

SpecPlans == InitPlans /\ [][CallGenerateTwice]_vars

-----------------------------------------------------------------------------
(* The Streamlit client (app.py) talking to /generate and /chat.  args is   *)
(* st.session_state, loc the heaps of the client and of the server, req the *)
(* payload posted last (to /generate or to /chat), resp the outcome of that *)
(* post, ret the /chat handler's call, pc the position of the chat turn.    *)
(* Objects no name reaches any more (the copies made for the post, the      *)
(* handler's frame and objects) are dropped when the turn ends.             *)

InitChat ==
    /\ args = [ results |-> NoneRef, latest_financial_data |-> NoneRef,
                plan_id |-> None, messages |-> <<>>, budget_fingerprint |-> None ]
    /\ loc = [client |-> <<>>, server |-> <<>>]
    /\ req = NoRequest
    /\ resp = None
    /\ pc = "ready"
    /\ ret = NoCall
    /\ called = FALSE

\* What the server answers to each request of the client under each outcome
\* of the explanation call (generate is a function of the two), and the
\* objects res.json() builds from the answer, computed once.
GenerateAnswers ==
    [ q \in ServerRequests |->
        [ outcome \in LLMTexts \cup {"raise"} |->
            LET data == generate(q, outcome)
            IN  [ data |-> data, stored |-> json_loads(<<>>, data) ] ] ]

\* A Generate button that empties the history on every answer.
ClientGenerateAlwaysResets(q, outcome) ==
    /\ pc = "ready"
    /\ LET data == GenerateAnswers[q][outcome].data
           stored == GenerateAnswers[q][outcome].stored
       IN  /\ loc' = [loc EXCEPT !.client = stored.heap]
           /\ args' = [ results |-> stored.value,
                        latest_financial_data |-> stored.value,
                        plan_id |-> data.plan_id,
                        messages |-> <<>>,
                        budget_fingerprint |-> make_fingerprint(q) ]
    /\ req' = [kind |-> "generate", payload |-> q]
    /\ resp' = [status |-> "ok"]
    /\ UNCHANGED <<ret, called, pc>>

\* app.py lines 232-272 and 279-281: the Generate button, answered.
ClientGenerate(q, outcome) ==
    /\ pc = "ready"
    /\ LET data == GenerateAnswers[q][outcome].data
           stored == GenerateAnswers[q][outcome].stored
           new_fp == make_fingerprint(q)
       IN  /\ loc' = [loc EXCEPT !.client = stored.heap]
           /\ args' = [ results |-> stored.value,
                        latest_financial_data |-> stored.value,
                        plan_id |-> data.plan_id,
                        messages |-> IF args.budget_fingerprint # new_fp
                                     THEN <<>> ELSE args.messages,
                        budget_fingerprint |-> new_fp ]
    /\ req' = [kind |-> "generate", payload |-> q]
    /\ resp' = [status |-> "ok"]
    /\ UNCHANGED <<ret, called, pc>>

\* A failing Generate that has already taken the new fingerprint and
\* emptied the history before posting.
ClientGenerateFailAfterReset(q) ==
    /\ pc = "ready"
    /\ args' = [args EXCEPT !.messages = IF args.budget_fingerprint # make_fingerprint(q)
                                          THEN <<>> ELSE @,
                            !.budget_fingerprint = make_fingerprint(q)]
    /\ req' = [kind |-> "generate", payload |-> q]
    /\ resp' = [status |-> "error"]
    /\ UNCHANGED <<loc, ret, called, pc>>

\* app.py lines 232-260 and 273-274: the Generate button when the post, the
\* status check or the decoding of the body raises.  new_fp is computed
\* (line 256) and dropped; st.error shows the failure.
ClientGenerateFail(q) ==
    /\ pc = "ready"
    /\ req' = [kind |-> "generate", payload |-> q]
    /\ resp' = [status |-> "error"]
    /\ UNCHANGED <<args, loc, ret, called, pc>>

\* app.py lines 430-445: a message is typed and posted to /chat.
ChatSubmit(user_message) ==
    /\ pc = "ready"
    /\ Len(args.messages) < 2 * MaxChatTurns
    /\ LET messages == Append(args.messages, [role |-> "user", content |-> user_message])
           safe == strip_visual_from_financial_data(loc.client, args.latest_financial_data)
       IN  /\ args' = [args EXCEPT !.messages = messages]
           /\ loc' = [loc EXCEPT !.client = safe.heap]
           /\ req' = [ message |-> user_message,
                       financial_data |-> json_dumps(safe.heap, safe.value),
                       history |-> messages,
                       plan_id |-> args.plan_id ]
    /\ pc' = "posted"
    /\ resp' = None
    /\ UNCHANGED <<ret, called>>

\* main.py lines 443-497: the server handles the payload and answers.
ChatServe(outcome) ==
    /\ pc = "posted"
    /\ LET r == chat(req, outcome)
       IN  /\ loc' = [loc EXCEPT !.server = r.heap]
           /\ ret' = [ fn |-> "chat", financial_data |-> r.financial_data,
                       llm_called |-> r.llm_called, value |-> r.value ]
           /\ resp' = [status |-> "ok", body |-> r.value]
    /\ pc' = "answered"
    /\ UNCHANGED <<args, called, req>>

\* app.py lines 448-449: the post raises (no connection, timeout, HTTP error).
ChatFail ==
    /\ pc = "posted"
    /\ resp' = [status |-> "error"]
    /\ pc' = "answered"
    /\ UNCHANGED <<args, ret, called, req, loc>>

\* A chat turn that appends no reply when the post has failed.
ChatReceiveSilentOnError ==
    /\ pc = "answered"
    /\ args' = [args EXCEPT
                    !.messages = IF resp.status = "ok"
                                 THEN Append(@, [role |-> "assistant", content |-> resp.body.response])
                                 ELSE @,
                    !.latest_financial_data = IF args.results # NoneRef
                                              THEN args.results ELSE @]
    /\ loc' = [client |-> SubSeq(loc.client, 1, args.results), server |-> <<>>]
    /\ req' = NoRequest
    /\ resp' = None
    /\ ret' = NoCall
    /\ pc' = "ready"
    /\ UNCHANGED called

\* app.py lines 447-452 and, after the rerun, 279-281.
ChatReceive ==
    /\ pc = "answered"
    /\ LET ai_response ==
               IF resp.status = "ok"
               THEN IF "response" \in DOMAIN resp.body THEN resp.body.response
                    ELSE "No response received."
               ELSE "Error connecting to backend: {e}"
       IN  args' = [args EXCEPT
                       !.messages = Append(@, [role |-> "assistant", content |-> ai_response]),
                       !.latest_financial_data = IF args.results # NoneRef
                                                 THEN args.results ELSE @]
    /\ loc' = [client |-> SubSeq(loc.client, 1, args.results), server |-> <<>>]
    /\ req' = NoRequest
    /\ resp' = None
    /\ ret' = NoCall
    /\ pc' = "ready"
    /\ UNCHANGED called

NextChat ==
    \/ \E q \in ServerRequests, outcome \in LLMTexts \cup {"raise"} : ClientGenerate(q, outcome)
    \/ \E q \in ServerRequests : ClientGenerateFail(q)
    \/ \E user_message \in ChatMessages : ChatSubmit(user_message)
    \/ \E outcome \in ChatTexts \cup {"raise"} : ChatServe(outcome)
    \/ ChatFail
    \/ ChatReceive

SpecChat == InitChat /\ [][NextChat]_vars

-----------------------------------------------------------------------------
(* The server: NumRequests /generate requests, each running the handler     *)
(* of main.py from its first statement to its return, interleaved at        *)
(* statement-group granularity.                                             *)

Init ==
    /\ HarnessIdle
    /\ req = [r \in RequestIds |-> NoRequest]
    /\ pc = [r \in RequestIds |-> "idle"]
    /\ loc = [r \in RequestIds |-> <<>>]
    /\ resp = [r \in RequestIds |-> None]

Advance(r, from, to, l) ==
    /\ pc[r] = from
    /\ pc' = [pc EXCEPT ![r] = to]
    /\ loc' = [loc EXCEPT ![r] = l]
    /\ UNCHANGED <<args, ret, called, req, resp>>

\* A validated GenerateRequest reaches the handler.
Receive(r) ==
    \E q \in ServerRequests :
        /\ pc[r] = "idle"
        /\ req' = [req EXCEPT ![r] = q]
        /\ pc' = [pc EXCEPT ![r] = "inputs"]
        /\ UNCHANGED <<args, ret, called, loc, resp>>

GenInputs(r) == Advance(r, "inputs", "score", step_inputs(req[r]))

\* compute_financial_score and generate_budget are pure: their results on
\* the scoring inputs the server's requests produce, computed once.
ScoringInputs == { scoring_input_of(q) : q \in ServerRequests }

ScoreResults == [ p \in ScoringInputs |-> compute_financial_score(p) ]

BudgetResults == [ p \in ScoringInputs |-> [ m \in { q.budget_mode : q \in ServerRequests } |-> generate_budget(p, m) ] ]

\* Line 345: score_obj = compute_financial_score(scoring_input).
GenScore(r) ==
    Advance(r, "score", "budget", loc[r] @@ [ score_obj |-> ScoreResults[loc[r].scoring_input] ])

\* A budget step that takes scoring_input from a name shared by all
\* requests: it sees the scoring_input of any request that has built one.
GenBudgetSharedInput(r) ==
    \E other \in RequestIds :
        /\ "scoring_input" \in DOMAIN loc[other]
        /\ Advance(r, "budget", "readiness",
                   step_budget(req[r], [loc[r] EXCEPT !.scoring_input = loc[other].scoring_input]))

\* Line 346: budget_obj = generate_budget(scoring_input, mode=req.budget_mode).
GenBudget(r) ==
    Advance(r, "budget", "readiness",
            loc[r] @@ [ budget_obj |-> BudgetResults[loc[r].scoring_input][req[r].budget_mode] ])

GenReadiness(r) == Advance(r, "readiness", "allocation", step_readiness(req[r], loc[r]))

GenAllocation(r) == Advance(r, "allocation", "goal", step_allocation(req[r], loc[r]))

GenGoal(r) == Advance(r, "goal", "plan_id", step_goal(req[r], loc[r]))

GenPlanId(r) == Advance(r, "plan_id", "explain", step_plan_id(req[r], loc[r]))

\* The explanation service answers with some text, or the call raises.
GenExplain(r) ==
    \E outcome \in LLMTexts \cup {"raise"} :
        Advance(r, "explain", "return", step_explain(req[r], loc[r], outcome))

GenReturn(r) ==
    /\ pc[r] = "return"
    /\ resp' = [resp EXCEPT ![r] = generate_response(loc[r])]
    /\ pc' = [pc EXCEPT ![r] = "done"]
    /\ UNCHANGED <<args, ret, called, req, loc>>

Next ==
    \E r \in RequestIds :
        \/ Receive(r)
        \/ GenInputs(r)
        \/ GenScore(r)
        \/ GenBudget(r)
        \/ GenReadiness(r)
        \/ GenAllocation(r)
        \/ GenGoal(r)
        \/ GenPlanId(r)
        \/ GenExplain(r)
        \/ GenReturn(r)

Spec == Init /\ [][Next]_vars

\* The steps of the handler that are the server's own code: each runs to
\* its end once the handler has reached it.
HandlerSteps(r) ==
    \/ GenInputs(r)
    \/ GenScore(r)
    \/ GenBudget(r)
    \/ GenReadiness(r)
    \/ GenAllocation(r)
    \/ GenGoal(r)
    \/ GenPlanId(r)
    \/ GenReturn(r)

\* The server under its scheduling: the handler's own steps are taken when
\* enabled.  client.chat.completions.create is called with the model, the
\* messages and the temperature only; when it returns or raises is up to the
\* remote service, so GenExplain carries no fairness.
SpecLive == Init /\ [][Next]_vars /\ \A r \in RequestIds : WF_vars(HandlerSteps(r))

-----------------------------------------------------------------------------
(* Properties of compute_financial_score.                                   *)

InRange(x, lo, hi) == IsNum(x) /\ RLe(lo, x) /\ RLe(x, hi)

\* C1: for every payload with non-negative monetary fields (zero income,
\* zero expenses and zero savings included) the returned score is a number
\* in [0,100], and no ratio, sub-score or reported component is the result
\* of a division by zero.
C1_ScoreInRange ==
    called =>
        /\ InRange(ret.value.score, Zero, R(100))
        /\ \A k \in {"savings_rate", "debt_to_income", "housing_pct",
                     "emergency_months", "overall"} : IsNum(ret.locals[k])
        /\ \A k \in {"savings_rate_score", "debt_score", "housing_score",
                     "emergency_score"} : InRange(ret.locals[k], Zero, R(100))
        /\ \A k \in DOMAIN ret.value.components : IsNum(ret.value.components[k])

\* C1 witness: the all-zero household has been scored (48 = 28 + 20).
C1_Witness ==
    /\ called
    /\ args.monthly_income = Zero
    /\ args.fixed_expenses = Zero /\ args.variable_expenses = Zero
    /\ args.savings_monthly = Zero /\ args.savings_total = Zero
    /\ ret.value.score = R(48)

\* C2: the returned state is the step function of the returned score with
\* the closed-open thresholds 40 / 60 / 80.
C2_StateOfReportedScore ==
    called =>
        LET s == ret.value.score
            st == ret.value.state
        IN  /\ st \in {"critical", "vulnerable", "stable", "strong"}
            /\ (st = "critical") = RLt(s, R(40))
            /\ (st = "vulnerable") = (RLe(R(40), s) /\ RLt(s, R(60)))
            /\ (st = "stable") = (RLe(R(60), s) /\ RLt(s, R(80)))
            /\ (st = "strong") = RLe(R(80), s)

-----------------------------------------------------------------------------
(* Properties of generate_budget.                                           *)

\* C3: in the returned plan fixed + debt + recommended_savings +
\* recommended_variable + leftover equals income, also when
\* fixed_expenses + debt_monthly_payment exceeds monthly_income.
C3_BudgetSumsToIncome ==
    called =>
        LET t == ret.value.totals
        IN  RAdd(RAdd(RAdd(RAdd(t.fixed, t.debt), t.recommended_savings),
                      t.recommended_variable), t.leftover) = t.income

\* C4: flexible_pool = max(0, income - fixed - debt),
\* 0 <= recommended_savings <= flexible_pool, recommended_variable >= 0 and
\* recommended_savings + recommended_variable = flexible_pool, for the
\* amounts generate_budget computes (before rounding for output).
C4_SplitOfFlexiblePool ==
    called =>
        LET l == ret.locals
            p == args.payload
            spare == RSub(RSub(p.monthly_income, p.fixed_expenses),
                          p.debt_monthly_payment)
        IN  /\ l.flexible_pool = (IF RLt(spare, Zero) THEN Zero ELSE spare)
            /\ RLe(Zero, l.recommended_savings)
            /\ RLe(l.recommended_savings, l.flexible_pool)
            /\ RLe(Zero, l.recommended_variable)
            /\ RAdd(l.recommended_savings, l.recommended_variable) = l.flexible_pool

\* C4 witness: the target was unaffordable, so the 60% fallback split a
\* positive pool.
C4_Witness ==
    /\ called
    /\ RLt(ret.locals.flexible_pool, ret.locals.ideal_savings)
    /\ RLt(Zero, ret.locals.recommended_savings)
    /\ RLt(Zero, ret.locals.recommended_variable)

-----------------------------------------------------------------------------
(* Properties of the /generate handler.                                     *)

\* The response without the text of the explanation service.
Deterministic(response) ==
    [ k \in DOMAIN response \ {"llm_explanation"} |-> response[k] ]

\* C5: two /generate runs on identical requests return the same plan_id,
\* score, budget, investing and savings_goal, whatever else the server ran
\* before, between or during them.
C5_Idempotent ==
    \A r1, r2 \in RequestIds :
        (pc[r1] = "done" /\ pc[r2] = "done" /\ req[r1] = req[r2])
            => Deterministic(resp[r1]) = Deterministic(resp[r2])

\* C5 witness: two identical requests were answered, with different
\* explanation texts.
C5_Witness ==
    /\ pc[1] = "done" /\ pc[2] = "done"
    /\ req[1] = req[2]
    /\ resp[1].llm_explanation # resp[2].llm_explanation
    /\ resp[1].plan_id = resp[2].plan_id

\* What the handler has computed from request q when it reaches the call of
\* the explanation service (lines 331-398).
ComputedBeforeCall(q) ==
    step_plan_id(q, step_goal(q, step_allocation(q, step_readiness(q,
        step_budget(q, step_score(q, step_inputs(q)))))))

EngineFields == {"score_obj", "budget_obj", "readiness", "allocation",
                 "savings_goal", "plan_id"}

\* C6: the explanation service is called only once score, budget,
\* readiness, allocation, savings_goal and plan_id exist; after the call,
\* successful or not, the handler can return, and the response carries
\* exactly the values computed before the call; after a failed call
\* llm_explanation is the placeholder.
C6_ExplanationLeavesResult ==
    \A r \in RequestIds :
        /\ pc[r] \in {"explain", "return", "done"} => EngineFields \subseteq DOMAIN loc[r]
        /\ pc[r] = "return" => ENABLED GenReturn(r)
        /\ pc[r] = "done" =>
             LET c == ComputedBeforeCall(req[r])
             IN  /\ resp[r].plan_id = c.plan_id
                 /\ resp[r].score = c.score_obj
                 /\ resp[r].budget = c.budget_obj
                 /\ resp[r].investing =
                        [ region |-> c.region, readiness |-> c.readiness,
                          education |-> c.education,
                          allocation_example |-> c.allocation,
                          allocation_visual |-> c.allocation_visual ]
                 /\ resp[r].savings_goal = c.savings_goal
                 /\ loc[r].llm_raised => resp[r].llm_explanation = LLMPlaceholder

\* C6 witness: the scenario request was answered (score 89, strong, 800
\* saved and 1800 spent a month) although the explanation call raised.
C6_Witness ==
    \E r \in RequestIds :
        /\ pc[r] = "done"
        /\ req[r] = BaseRequest
        /\ loc[r].llm_raised
        /\ resp[r].llm_explanation = LLMPlaceholder
        /\ resp[r].score.score = R(89) /\ resp[r].score.state = "strong"
        /\ resp[r].budget.totals.recommended_savings = R(800)
        /\ resp[r].budget.totals.recommended_variable = R(1800)

-----------------------------------------------------------------------------
(* Properties of investment_readiness.                                      *)

Has(seq, x) == \E i \in 1..Len(seq) : seq[i] = x

\* C7 as claimed: blockers exist exactly when emergency_months < 1, or the
\* state is critical or vulnerable, or leftover < 0.
C7_BlockersAsClaimed ==
    called =>
        (Len(ret.value.blockers) > 0) =
            ( \/ RLt(args.emergency_months, R(1))
              \/ args.score_state \in {"critical", "vulnerable"}
              \/ RLt(args.leftover, Zero) )

\* C7 amended: blockers exist exactly when emergency_months < 1, or the
\* state is critical or vulnerable, or leftover < 0, or leftover == 0 with
\* recommended_savings <= 0.
C7_BlockersExactly ==
    called =>
        (Len(ret.value.blockers) > 0) =
            ( \/ RLt(args.emergency_months, R(1))
              \/ args.score_state \in {"critical", "vulnerable"}
              \/ RLt(args.leftover, Zero)
              \/ (args.leftover = Zero /\ RLe(args.recommended_savings, Zero)) )

\* C7 witness: a stable household with 3 months of runway, no leftover and
\* nothing to save is blocked by the fourth condition alone.
C7_Witness ==
    /\ called
    /\ args.score_state = "stable" /\ args.emergency_months = R(3)
    /\ args.leftover = Zero /\ args.recommended_savings = Zero
    /\ ret.value.blockers = <<BlockerNoCash>>

\* C8: ready is true if and only if the returned blockers list is empty.
C8_ReadyIffNoBlockers ==
    called => (ret.value.ready = (ret.value.blockers = <<>>))

\* C8 witness: a call with exactly one blocker, hence not ready.
C8_Witness ==
    /\ called
    /\ Len(ret.value.blockers) = 1
    /\ ret.value.ready = FALSE

\* C9: with leftover == 0 and recommended_savings > 0 no cash-flow blocker
\* is added and the "redirecting planned savings" reason is; with
\* emergency_months >= 1 and a stable or strong state the verdict is ready.
C9_RedirectIsNoBlocker ==
    (called /\ args.leftover = Zero /\ RLt(Zero, args.recommended_savings)) =>
        /\ ~Has(ret.value.blockers, BlockerNoCash)
        /\ ~Has(ret.value.blockers, BlockerDeficit)
        /\ Has(ret.value.reasons, ReasonRedirect)
        /\ (RLe(R(1), args.emergency_months) /\ args.score_state \in {"stable", "strong"})
              => ret.value.ready

\* C9 witness: such a call, judged ready.
C9_Witness ==
    /\ called
    /\ args.leftover = Zero /\ RLt(Zero, args.recommended_savings)
    /\ args.emergency_months = R(1) /\ args.score_state = "stable"
    /\ ret.value.ready
    /\ Has(ret.value.reasons, ReasonRedirect)

-----------------------------------------------------------------------------
(* Properties of portfolio_allocation_dynamic.                              *)

\* C10: first match wins: critical / vulnerable gives 0/0/100; otherwise
\* emergency_months < 3 or debt_to_income > 0.30 gives 40/50/10; otherwise
\* savings_rate < 0.15 gives 60/35/5; otherwise 80/20/0; the three
\* percentages always sum to 100.
C10_AllocationTable ==
    called =>
        LET a == ret.value
            weak == args.score_state \in {"critical", "vulnerable"}
            thin == RLt(args.emergency_months, R(3)) \/ RLt(Norm(3, 10), args.debt_to_income)
            slow == RLt(args.savings_rate, Norm(3, 20))
        IN  /\ a.stocks_pct + a.bonds_pct + a.cash_pct = 100
            /\ weak => a = Allocation(0, 0, 100)
            /\ (~weak /\ thin) => a = Allocation(40, 50, 10)
            /\ (~weak /\ ~thin /\ slow) => a = Allocation(60, 35, 5)
            /\ (~weak /\ ~thin /\ ~slow) => a = Allocation(80, 20, 0)

\* C10 witness: a thin emergency fund together with a low savings rate got
\* 40/50/10, the earlier rule.
C10_Witness ==
    /\ called
    /\ args.score_state = "strong"
    /\ args.emergency_months = R(2) /\ args.savings_rate = Zero
    /\ ret.value = Allocation(40, 50, 10)

\* m is the least whole number of months whose savings at `capacity` a month
\* cover goal_cost.
IsCeilOfQuotient(m, goal_cost, capacity) ==
    /\ m # None
    /\ m[2] = 1
    /\ RLt(RMul(RSub(m, R(1)), capacity), goal_cost)
    /\ RLe(goal_cost, RMul(m, capacity))

GoalCalled == called /\ ret.fn = "compute_goal_timeline_ideal"

\* C11: for a positive goal cost, the planned capacity is max(0,
\* recommended_savings) + max(0, leftover) and the current capacity is max(0,
\* current_monthly_savings); each ideal-months field is ceil(goal_cost /
\* its own capacity) when that capacity is positive and None exactly when
\* that capacity is 0, whatever the other capacity is, and the note of a
\* None field says that its capacity is 0.
C11_IdealMonthsPerCapacity ==
    (GoalCalled /\ args.goal_cost # None /\ RLt(Zero, args.goal_cost)) =>
        LET v == ret.value
            planned == RAdd(RMax(Zero, args.recommended_savings), RMax(Zero, args.leftover))
            current == RMax(Zero, args.current_monthly_savings)
        IN  /\ v.planned_monthly_capacity = planned
            /\ v.current_monthly_savings = current
            /\ IF RLt(Zero, planned)
               THEN /\ IsCeilOfQuotient(v.ideal_months_using_planned_savings, args.goal_cost, planned)
                    /\ v.notes[1] = NotePlanned(v.ideal_months_using_planned_savings)
               ELSE /\ v.ideal_months_using_planned_savings = None
                    /\ v.notes[1] = NoteNoPlanned
            /\ IF RLt(Zero, current)
               THEN /\ IsCeilOfQuotient(v.ideal_months_using_current_savings, args.goal_cost, current)
                    /\ v.notes[2] = NoteCurrent(v.ideal_months_using_current_savings)
               ELSE /\ v.ideal_months_using_current_savings = None
                    /\ v.notes[2] = NoteNoCurrent
            /\ Len(v.notes) = 2

\* A goal of 5 at a planned capacity of 2 a month takes 3 months, while the
\* current savings of 0 give no estimate.
C11_Witness ==
    /\ GoalCalled
    /\ args.goal_cost = R(5)
    /\ ret.value.planned_monthly_capacity = R(2)
    /\ ret.value.ideal_months_using_planned_savings = R(3)
    /\ ret.value.current_monthly_savings = Zero
    /\ ret.value.ideal_months_using_current_savings = None

\* C12: the goal timeline is disabled, with both ideal-months fields and both
\* capacity fields None, whenever goal_cost is None, 0 or negative, and it is
\* enabled for every goal_cost above 0.
C12_EnabledIffPositiveGoal ==
    GoalCalled =>
        LET v == ret.value
            positive == args.goal_cost # None /\ RLt(Zero, args.goal_cost)
        IN  /\ v.enabled = positive
            /\ ~positive =>
                  /\ v.ideal_months_using_planned_savings = None
                  /\ v.ideal_months_using_current_savings = None
                  /\ v.planned_monthly_capacity = None
                  /\ v.current_monthly_savings = None

\* A negative goal cost with money to save every month: still disabled.
C12_Witness ==
    /\ GoalCalled
    /\ args.goal_cost = R(-1)
    /\ args.recommended_savings = R(2)
    /\ args.current_monthly_savings = R(1)
    /\ ret.value.enabled = FALSE
    /\ ret.value.planned_monthly_capacity = None

\* C13: components.housing_pct of the score result is the housing share as a
\* percentage on the 0..100 scale, 100 * fixed_expenses / monthly_income
\* rounded to two decimals (30.0 for fixed 1200 and income 4000).
C13_HousingPctIsPercentage ==
    (called /\ ret.fn = "compute_financial_score" /\ RLt(Zero, args.monthly_income)) =>
        ret.value.components.housing_pct =
            round2(RMul(R(100), RDiv(args.fixed_expenses, args.monthly_income)))

\* The plan the client has stored, as a value.
StoredResults == json_dumps(loc.client, args.results)

\* C14: a chat turn computes and overrides no numeric field.  The /chat
\* handler returns a dict with the single key "response" and leaves the
\* financial_data it was sent as it was; no step of the client's chat turn
\* (typing and posting, the answer or its failure, appending the reply)
\* changes the stored results or the stored plan_id.
C14_ChatLeavesPlan ==
    [][ /\ (pc # "ready" \/ pc' # "ready") =>
              /\ StoredResults' = StoredResults
              /\ args'.results = args.results
              /\ args'.plan_id = args.plan_id
        /\ (pc = "posted" /\ pc' = "answered" /\ resp'.status = "ok") =>
              /\ DOMAIN resp'.body = {"response"}
              /\ json_dumps(loc'.server, ret'.financial_data) = req.financial_data
      ]_vars

\* A chat about a stored plan was answered by the model and the reply was
\* appended; the stored plan still has its allocation_visual.
C14_Witness ==
    /\ pc = "ready"
    /\ args.results # NoneRef
    /\ Len(args.messages) = 2
    /\ args.messages[2] = [role |-> "assistant", content |-> "answer A"]
    /\ "allocation_visual" \in DOMAIN StoredResults.investing
    /\ StoredResults.plan_id = args.plan_id

\* The locals a request has at each position of the handler when it is the
\* only request the server ever runs.
SoloRun(q) ==
    LET l1 == step_inputs(q)
        l2 == step_score(q, l1)
        l3 == step_budget(q, l2)
        l4 == step_readiness(q, l3)
        l5 == step_allocation(q, l4)
        l6 == step_goal(q, l5)
        l7 == step_plan_id(q, l6)
    IN  [ inputs |-> <<>>, score |-> l1, budget |-> l2, readiness |-> l3,
          allocation |-> l4, goal |-> l5, plan_id |-> l6, explain |-> l7 ]

SoloRuns == [q \in ServerRequests |-> SoloRun(q)]

SoloResponses ==
    [q \in ServerRequests |-> {generate(q, outcome) : outcome \in LLMTexts \cup {"raise"}}]

\* C15: however concurrent /generate requests interleave, every request
\* has at every position of the handler exactly the locals it has when run
\* alone, and its response is one it can produce when run alone (the
\* explanation service's answer being the only choice): no step reads or
\* writes a value of another request.
C15_RequestsIsolated ==
    \A r \in RequestIds :
        /\ pc[r] \in DOMAIN SoloRuns[BaseRequest] => loc[r] = SoloRuns[req[r]][pc[r]]
        /\ pc[r] \in {"return", "done"} =>
              \E outcome \in LLMTexts \cup {"raise"} :
                  loc[r] = step_explain(req[r], SoloRuns[req[r]].explain, outcome)
        /\ pc[r] = "done" => resp[r] \in SoloResponses[req[r]]

\* Two different requests are in the handler at the same time, one between
\* scoring and budgeting, the other already past its plan_id.
C15_Witness ==
    /\ pc[1] = "explain"
    /\ pc[2] = "budget"
    /\ req[1] # req[2]
    /\ loc[1].scoring_input # loc[2].scoring_input

\* The variable total as stated: the breakdown's sum when above 0.
EffectiveVariable(q) ==
    IF RLt(Zero, sum_amounts(q.variable_breakdown))
    THEN sum_amounts(q.variable_breakdown) ELSE q.variable_expenses

FingerprintFields(q) ==
    [ currency |-> q.currency, country |-> q.country, budget_mode |-> q.budget_mode,
      monthly_income |-> q.monthly_income, fixed_expenses |-> q.fixed_expenses,
      variable |-> EffectiveVariable(q),
      debt_monthly_payment |-> q.debt_monthly_payment,
      savings_monthly |-> q.savings_monthly, savings_total |-> q.savings_total,
      savings_goal_cost |-> q.savings_goal_cost ]

NumericOutputs(response) ==
    [ score |-> response.score, budget |-> response.budget,
      allocation |-> response.investing.allocation_example,
      savings_goal |->
          [ k \in {"enabled", "goal_cost", "planned_monthly_capacity",
                   "current_monthly_savings", "ideal_months_using_planned_savings",
                   "ideal_months_using_current_savings"} |-> response.savings_goal[k] ] ]

PlansCalled == called /\ ret.fn = "generate"

\* C16: plan_id has 16 characters and is a function of currency, country,
\* budget_mode, monthly_income, fixed_expenses, the effective variable
\* total, debt_monthly_payment, savings_monthly, savings_total and
\* savings_goal_cost only: requests that agree on these get the same
\* plan_id, and requests with the same plan_id get the same numeric score,
\* budget, allocation and savings_goal outputs.
C16_PlanIdOfFingerprint ==
    PlansCalled =>
        /\ ret.a.value.plan_id.chars = 16
        /\ FingerprintFields(args.a) = FingerprintFields(args.b)
              => ret.a.value.plan_id = ret.b.value.plan_id
        /\ ret.a.value.plan_id = ret.b.value.plan_id
              => NumericOutputs(ret.a.value) = NumericOutputs(ret.b.value)

\* Two requests that differ in debt_total_balance and in how the variable
\* total of 500 is given got the same plan_id.
C16_Witness ==
    /\ PlansCalled
    /\ args.a.debt_total_balance = R(5000)
    /\ args.b.debt_total_balance = Zero
    /\ args.a.variable_breakdown = <<>>
    /\ Len(args.b.variable_breakdown) = 2
    /\ ret.a.value.plan_id = ret.b.value.plan_id
    /\ ret.a.value.budget = ret.b.value.budget

\* C17: the variable total that is scored, budgeted and fingerprinted is the
\* sum of variable_breakdown when that sum is above 0, and variable_expenses
\* otherwise (no breakdown, or a breakdown of zero amounts).
C17_EffectiveVariableTotal ==
    PlansCalled =>
        LET l == ret.a.locals
            total == EffectiveVariable(args.a)
            engine_input == [ monthly_income |-> args.a.monthly_income,
                              fixed_expenses |-> args.a.fixed_expenses,
                              variable_expenses |-> total,
                              debt_monthly_payment |-> args.a.debt_monthly_payment,
                              debt_total_balance |-> args.a.debt_total_balance,
                              savings_monthly |-> args.a.savings_monthly,
                              savings_total |-> args.a.savings_total,
                              emergency_months_target |-> R(3) ]
        IN  /\ l.variable_total = total
            /\ ret.a.value.score = compute_financial_score(engine_input)
            /\ ret.a.value.budget = generate_budget(engine_input, args.a.budget_mode)
            /\ \E i \in DOMAIN l.plan_id.sha256_hex16_of :
                   l.plan_id.sha256_hex16_of[i] = <<"variable", total>>

\* A breakdown of zero amounts falls back to variable_expenses, and a
\* breakdown of 500 overrides variable_expenses of 0.
C17_Witness ==
    /\ PlansCalled
    /\ Len(args.a.variable_breakdown) = 2
    /\ sum_amounts(args.a.variable_breakdown) = Zero
    /\ ret.a.locals.variable_total = R(500)
    /\ args.b.variable_expenses = Zero
    /\ ret.b.locals.variable_total = R(500)

\* x is None or a number with at most two decimals.
TwoDecimals(x) == x = None \/ round2(x) = x

\* C18: every numeric field of the /generate response has at most two
\* decimals, also for inputs with more: the score and its components, the
\* budget's totals, deltas and meta, and the savings_goal fields goal_cost,
\* planned_monthly_capacity and current_monthly_savings.
C18_ResponseRounded ==
    PlansCalled =>
        LET v == ret.a.value
        IN  /\ TwoDecimals(v.score.score)
            /\ \A k \in DOMAIN v.score.components : TwoDecimals(v.score.components[k])
            /\ \A k \in DOMAIN v.budget.totals : TwoDecimals(v.budget.totals[k])
            /\ \A k \in DOMAIN v.budget.deltas : TwoDecimals(v.budget.deltas[k])
            /\ \A k \in DOMAIN v.budget.meta : TwoDecimals(v.budget.meta[k])
            /\ \A k \in {"goal_cost", "planned_monthly_capacity", "current_monthly_savings"} :
                   TwoDecimals(v.savings_goal[k])

RatiosCalled == called /\ ret.fn = "compute_financial_score twice"

\* q is a / b, for b other than 0.
IsQuotient(q, a, b) == IsNum(q) /\ RMul(q, b) = a

\* C19: safe_div(a, b) is a / b for every b other than 0, negative b
\* included, and exactly 0 for b = 0, and never fails; emergency_months is
\* savings_total / max(1, fixed + variable), so a household without
\* expenses has emergency_months = savings_total.
C19_SafeDivAndEmergencyMonths ==
    RatiosCalled =>
        LET l == ret.a
            income == args.monthly_income
            expenses == RAdd(args.fixed_expenses, args.variable_expenses)
        IN  /\ income # Zero =>
                  /\ IsQuotient(l.savings_rate, args.savings_monthly, income)
                  /\ IsQuotient(l.debt_to_income, args.debt_a, income)
                  /\ IsQuotient(l.housing_pct, args.fixed_expenses, income)
            /\ income = Zero =>
                  /\ l.savings_rate = Zero
                  /\ l.debt_to_income = Zero
                  /\ l.housing_pct = Zero
            /\ IsQuotient(l.emergency_months, args.savings_total,
                          IF RLt(expenses, R(1)) THEN R(1) ELSE expenses)
            /\ expenses = Zero => l.emergency_months = args.savings_total

\* No income and no expenses: the ratios are 0 and the runway is the
\* savings themselves.
C19_Witness ==
    /\ RatiosCalled
    /\ args.monthly_income = Zero
    /\ args.savings_monthly = R(1)
    /\ args.fixed_expenses = Zero /\ args.variable_expenses = Zero
    /\ args.savings_total = Norm(7, 2)
    /\ ret.a.savings_rate = Zero
    /\ ret.a.emergency_months = Norm(7, 2)

\* C20: the debt sub-score is 100 for a debt-to-income ratio up to 0.10, 0
\* from 0.40 on and (1 - (dti - 0.10) / 0.30) * 100 between; it is 100 at
\* 0.10, 50 at 0.25 and 0 at 0.40, stays within [0,100], and never rises
\* when the ratio rises.
C20_DebtScore ==
    RatiosCalled =>
        /\ \A l \in {ret.a, ret.b} :
              /\ InRange(l.debt_score, Zero, R(100))
              /\ RLe(l.debt_to_income, Norm(1, 10)) => l.debt_score = R(100)
              /\ RLe(Norm(4, 10), l.debt_to_income) => l.debt_score = Zero
              /\ (RLt(Norm(1, 10), l.debt_to_income) /\ RLt(l.debt_to_income, Norm(4, 10))) =>
                    \* (100 - score) * 0.30 = (dti - 0.10) * 100
                    RMul(RSub(R(100), l.debt_score), Norm(3, 10))
                        = RMul(RSub(l.debt_to_income, Norm(1, 10)), R(100))
              /\ l.debt_to_income = Norm(1, 4) => l.debt_score = R(50)
        /\ RLe(ret.a.debt_to_income, ret.b.debt_to_income)
              => RLe(ret.b.debt_score, ret.a.debt_score)

\* On one income, a ratio of 0.25 scores 50 and a ratio of 0.50 scores 0.
C20_Witness ==
    /\ RatiosCalled
    /\ ret.a.debt_to_income = Norm(1, 4)
    /\ ret.a.debt_score = R(50)
    /\ ret.b.debt_to_income = Norm(1, 2)
    /\ ret.b.debt_score = Zero

BudgetCalled == called /\ ret.fn = "generate_budget"

\* C21: the mode selects the target savings rate by a fixed table, super
\* 30%, normal 20%, relaxed 10%, whatever the case of its letters; a
\* missing, empty or unknown mode counts as normal with 20%; the returned
\* mode is always one of super, normal and relaxed.
C21_ModeTable ==
    BudgetCalled =>
        LET expected == IF args.mode \in {"super", "SUPER"} THEN "super"
                        ELSE IF args.mode = "relaxed" THEN "relaxed"
                        ELSE "normal"
            rate == IF expected = "super" THEN 30
                    ELSE IF expected = "relaxed" THEN 10 ELSE 20
        IN  /\ ret.value.mode = expected
            /\ ret.value.mode \in {"super", "normal", "relaxed"}
            /\ ret.locals.target_savings_rate = Norm(rate, 100)
            /\ ret.value.meta.target_savings_rate_pct = R(rate)

\* An unknown mode was budgeted as normal at 20%.
C21_Witness ==
    /\ BudgetCalled
    /\ args.mode = "yolo"
    /\ ret.value.mode = "normal"
    /\ ret.value.meta.target_savings_rate_pct = R(20)
    /\ RLt(Zero, ret.locals.recommended_savings)

\* The rate of a mode as the table gives it.
RateOfMode(mode) ==
    IF mode = "super" THEN Norm(3, 10)
    ELSE IF mode = "relaxed" THEN Norm(1, 10) ELSE Norm(2, 10)

\* C22: recommended_savings is income * target rate whenever that amount
\* is at most flexible_pool (the pool itself included), and 0.60 *
\* flexible_pool whenever it is above the pool.
C22_FallbackOnlyWhenUnaffordable ==
    BudgetCalled =>
        LET l == ret.locals
            target == RMul(args.payload.monthly_income, RateOfMode(ret.value.mode))
        IN  /\ RLe(target, l.flexible_pool) => l.recommended_savings = target
            /\ RLt(l.flexible_pool, target) =>
                  l.recommended_savings = RMul(Norm(6, 10), l.flexible_pool)

\* The target exactly equals a positive pool and is recommended in full.
C22_Witness ==
    /\ BudgetCalled
    /\ RLt(Zero, ret.locals.flexible_pool)
    /\ ret.locals.ideal_savings = ret.locals.flexible_pool
    /\ ret.locals.recommended_savings = ret.locals.flexible_pool
    /\ ret.locals.recommended_variable = Zero

\* C23: for every non-negative payload and every mode the leftover of the
\* budget is 0, before and after rounding; so the capacity for goals is
\* recommended_savings, and the readiness check that /generate makes on
\* the budget's leftover and recommended_savings takes neither the
\* negative-budget branch nor the positive-cash-flow branch.
C23_LeftoverIsZero ==
    BudgetCalled =>
        LET t == ret.value.totals
            check == cash_flow_check(t.leftover, t.recommended_savings)
            goal == compute_goal_timeline_ideal(R(1), "USD", t.recommended_savings,
                                                t.leftover, Zero)
        IN  /\ ret.locals.leftover = Zero
            /\ t.leftover = Zero
            /\ ret.locals.monthly_goal_capacity = ret.locals.recommended_savings
            /\ ret.value.meta.monthly_goal_capacity = t.recommended_savings
            /\ goal.planned_monthly_capacity = t.recommended_savings
            /\ ~Has(check.b, BlockerDeficit)
            /\ ~Has(check.r, ReasonCashFlow)

\* Fixed expenses and debt payment exceed the income: the leftover is still
\* 0 and nothing is recommended.
C23_Witness ==
    /\ BudgetCalled
    /\ RLt(args.payload.monthly_income,
           RAdd(args.payload.fixed_expenses, args.payload.debt_monthly_payment))
    /\ ret.value.totals.leftover = Zero
    /\ ret.value.totals.recommended_savings = Zero
    /\ Has(cash_flow_check(Zero, Zero).b, BlockerNoCash)

-----------------------------------------------------------------------------
(* Termination of /generate.                                                *)

\* C24: every /generate request whose handler has reached the call to the
\* explanation service eventually returns a response that carries the
\* computed score and budget, even if the service never answers.
C24_GenerateReturns ==
    \A r \in RequestIds :
        (pc[r] = "explain") ~>
            (pc[r] = "done" /\ resp[r] # None
                /\ resp[r].score = loc[r].score_obj
                /\ resp[r].budget = loc[r].budget_obj)

\* Up to the call and after it the handler does return: a request that
\* has been received reaches the call, and one whose call has ended is
\* answered.
HandlerReachesCall == \A r \in RequestIds : (pc[r] = "inputs") ~> (pc[r] = "explain")

HandlerReturnsAfterCall == \A r \in RequestIds : (pc[r] = "return") ~> (pc[r] = "done")

-----------------------------------------------------------------------------
(* Ordering of the budget modes.                                            *)

\* C25: for the payload of the call, the recommended savings of the three
\* modes are ordered: super >= normal >= relaxed.
C25_ModesOrdered ==
    BudgetCalled =>
        LET super == budget_locals(args.payload, "super").recommended_savings
            normal == budget_locals(args.payload, "normal").recommended_savings
            relaxed == budget_locals(args.payload, "relaxed").recommended_savings
        IN  /\ ret.value.mode = "super" => ret.locals.recommended_savings = super
            /\ RLe(normal, super)
            /\ RLe(relaxed, normal)

-----------------------------------------------------------------------------
(* The client's session: chat history, fingerprint and stored plan.         *)

\* A click on Generate has just been handled: its payload was posted and
\* the post was answered or failed.
GenerateStep == pc = "ready" /\ pc' = "ready" /\ req'.kind = "generate"

IsPrefix(s, t) == Len(s) <= Len(t) /\ SubSeq(t, 1, Len(s)) = s

\* C26: a Generate step empties the chat history exactly when it succeeds
\* with a payload whose fingerprint differs from the stored one, and leaves
\* the history as it is otherwise (same payload, or a failed request); the
\* steps of a chat turn only append to the history; and whenever the stored
\* plan_id changes the history is emptied, so every message in the history
\* was exchanged under the current plan_id.
C26_HistoryResetOnNewPlan ==
    [][ /\ GenerateStep =>
              LET differs == args.budget_fingerprint # make_fingerprint(req'.payload)
              IN  args'.messages = IF resp'.status = "ok" /\ differs
                                   THEN <<>> ELSE args.messages
        /\ ~GenerateStep => IsPrefix(args.messages, args'.messages)
        /\ args'.plan_id # args.plan_id => args'.messages = <<>>
      ]_vars

\* A Generate with the payload of the stored plan has just succeeded and
\* the two messages of the earlier chat turn are still in the history.
C26_Witness ==
    /\ pc = "ready"
    /\ req # NoRequest /\ req.kind = "generate"
    /\ resp = [status |-> "ok"]
    /\ args.budget_fingerprint = make_fingerprint(req.payload)
    /\ args.results # NoneRef
    /\ Len(args.messages) = 2
    /\ args.messages[1].role = "user"

\* The stored fingerprint is that of the payload which produced the stored
\* results: none of the two is stored, or the stored results and plan_id
\* are an answer of /generate to the fingerprinted payload.
FingerprintOfStoredResults ==
    IF args.results = NoneRef
    THEN args.budget_fingerprint = None /\ args.plan_id = None
    ELSE /\ args.budget_fingerprint # None
         /\ args.budget_fingerprint.sha256_of \in ServerRequests
         /\ StoredResults \in SoloResponses[args.budget_fingerprint.sha256_of]
         /\ args.plan_id = StoredResults.plan_id

\* C27: a Generate step whose request fails leaves results,
\* latest_financial_data, plan_id, messages and budget_fingerprint (and the
\* stored plan they refer to) as they were; and after every step the stored
\* fingerprint is that of the payload which produced the stored results.
C27_FailedGenerateLeavesSession ==
    [][ /\ (GenerateStep /\ resp'.status = "error") =>
              /\ args' = args
              /\ StoredResults' = StoredResults
        /\ FingerprintOfStoredResults'
      ]_vars

\* A Generate with another payload than the stored plan's has just failed;
\* the plan and the chat turn held before are still there.
C27_Witness ==
    /\ pc = "ready"
    /\ req # NoRequest /\ req.kind = "generate"
    /\ resp = [status |-> "error"]
    /\ args.results # NoneRef
    /\ args.latest_financial_data = args.results
    /\ args.budget_fingerprint # make_fingerprint(req.payload)
    /\ StoredResults \in SoloResponses[args.budget_fingerprint.sha256_of]
    /\ Len(args.messages) = 2

\* The history is a sequence of turns: a user message, then its reply.
Alternates(messages) ==
    /\ Len(messages) % 2 = 0
    /\ \A i \in 1..Len(messages) :
           messages[i].role = IF i % 2 = 1 THEN "user" ELSE "assistant"

\* C28: whenever no chat turn is under way the history alternates user,
\* assistant, ..., starting with a user message and ending with a reply;
\* the end of a turn appends exactly one reply to the user message posted,
\* the text of the response or the error placeholder when the post failed;
\* and /chat answers a blank message with 'Please enter a message.' without
\* calling the language model, and calls it for any other message.
C28_TurnsAlternate ==
    [][ /\ pc' = "ready" => Alternates(args'.messages)
        /\ (pc = "ready" /\ pc' = "posted") =>
              /\ args'.messages = Append(args.messages, [role |-> "user", content |-> req'.message])
              /\ req'.history = args'.messages
        /\ (pc = "answered" /\ pc' = "ready") =>
              args'.messages =
                  Append(args.messages,
                         [ role |-> "assistant",
                           content |-> IF resp.status = "ok" THEN resp.body.response
                                       ELSE "Error connecting to backend: {e}" ])
        /\ (pc = "posted" /\ pc' = "answered" /\ resp'.status = "ok") =>
              IF strip(req.message) = ""
              THEN resp'.body = [response |-> "Please enter a message."] /\ ~ret'.llm_called
              ELSE ret'.llm_called /\ resp'.body.response \in ChatTexts \cup {ChatUnreachable}
      ]_vars

\* Two turns are complete: the first post failed and got the placeholder,
\* the second was a blank message and got the server's prompt.
C28_Witness ==
    /\ pc = "ready"
    /\ Len(args.messages) = 4
    /\ args.messages[2] = [role |-> "assistant", content |-> "Error connecting to backend: {e}"]
    /\ strip(args.messages[3].content) = ""
    /\ args.messages[4] = [role |-> "assistant", content |-> "Please enter a message."]

-----------------------------------------------------------------------------
(* The emergency fund as the investing advisor of /generate sees it.        *)

\* The ratio the score engine computes (finance_logic.py lines 74-75).
EmergencyRatio(q) ==
    safe_div(q.savings_total, RMax(R(1), RAdd(q.fixed_expenses, EffectiveVariable(q))))

\* C29: in the response of /generate the blocker 'Emergency fund is below
\* 1 month of expenses.' is present whenever the ratio savings_total /
\* max(1, fixed + variable) is below 1, and when the state is neither
\* critical nor vulnerable and the ratio is below 3 the allocation is the
\* 40/50/10 one.
C29_AdvisorUsesEngineRatio ==
    PlansCalled =>
        \A x \in {"a", "b"} :
            LET ratio == EmergencyRatio(args[x])
                out == ret[x].value
            IN  /\ RLt(ratio, R(1)) => Has(out.investing.readiness.blockers, BlockerEmergency)
                /\ (RLt(ratio, R(3)) /\ out.score.state \notin {"critical", "vulnerable"})
                       => out.investing.allocation_example = Allocation(40, 50, 10)

-----------------------------------------------------------------------------
(* compute_financial_score without income.                                  *)

\* C30: when monthly_income is 0 the three income ratios are 0, so the debt
\* and housing sub-scores are 100 and the savings-rate sub-score is 0
\* whatever the debt payment, the fixed expenses and the savings are; the
\* overall score is 48 + 0.30 * emergency_score, the reported score is at
\* least 48 and the state is never critical.
C30_ZeroIncomeFloor ==
    (called /\ args.monthly_income = Zero) =>
        LET l == ret.locals
        IN  /\ l.savings_rate = Zero /\ l.debt_to_income = Zero /\ l.housing_pct = Zero
            /\ l.debt_score = R(100)
            /\ l.housing_score = R(100)
            /\ l.savings_rate_score = Zero
            /\ l.overall = RAdd(R(48), RMul(Norm(30, 100), l.emergency_score))
            /\ RLe(R(48), l.overall)
            /\ RLe(R(48), ret.value.score)
            /\ ret.value.state \in {"vulnerable", "stable", "strong"}

\* No income, a debt payment and fixed expenses but no savings at all: the
\* score is exactly 48 and the state vulnerable.
C30_Witness ==
    /\ called
    /\ args.monthly_income = Zero
    /\ RLt(Zero, args.debt_monthly_payment)
    /\ RLt(Zero, args.fixed_expenses)
    /\ args.savings_total = Zero
    /\ ret.value.score = R(48)
    /\ ret.value.state = "vulnerable"

====
